---------------------------- MODULE Spec2Model ----------------------------
(***************************************************************************)
(* A model of run/png/train_mn.py of chainer-glow: the multi-node training *)
(* script of a Glow normalizing flow.  Every process started by the MPI    *)
(* launcher runs main(); the processes meet only in the collectives of     *)
(* chainermn (scatter_dataset, and the broadcast / all-reduce inside the   *)
(* multi-node optimizer's update).                                         *)
(*                                                                         *)
(* Quantities that the script computes with math.log are kept in units of  *)
(* log 2, so that math.log(2.0) is 1 and math.log(2**b) is b.  A loss is a *)
(* fraction [num, den].  Tensors are represented by their shapes, model    *)
(* parameters by their provenance (who initialised them, whose batch set   *)
(* the actnorm statistics, how many averaged gradients were applied).      *)
(*                                                                         *)
(* The snapshot path is a record: whether the directory exists, the        *)
(* hyperparameters stored there, the checkpoint file (with the number of   *)
(* levels of the model it was dumped from), and the temporary file that    *)
(* encoder.serialize writes before it renames it onto the checkpoint file. *)
(* A process may be killed inside encoder.serialize (Crash).               *)
(***************************************************************************)
EXTENDS Integers, Sequences, FiniteSets, TLC

(***************************************************************************)
(* Bounds of the model                                                     *)
(***************************************************************************)
MaxSize == 2

MaxImages == 2

MaxBatchSize == 2

MaxTrainingSteps == 1

MaxLevels == 2

MaxSide == 4

MaxBatchIndex == 101

MaxChannels == 3

MaxMergeSide == 8

MaxMergeLevels == 3

(***************************************************************************)
(* Program constants                                                       *)
(***************************************************************************)
\* batch_index % 100 == 0 (line 161)
CheckpointEvery == 100

\* merge_factorized_z(factorized_z, factor=2) (line 46)
Factor == 2

\* image.transpose((2, 0, 1)) of an RGB png: three channels (line 78)
Channels == 3

\* --num-bits-x default (line 201), the bit depth of a png channel (line 76)
DefaultBits == 8

VARIABLES
    size,                       \* comm.size
    args,                       \* the parsed command line
    files,                      \* the png files under args.dataset_path
    snapshot,                   \* what args.snapshot_path holds
    comm,                       \* the state of the collectives
    pc,                         \* where each process is in main()
    image,                      \* main's local `image`
    dataset,                    \* main's local `dataset` (the shard)
    iterator,                   \* main's local `iterator`
    hyperparams,                \* main's local `hyperparams`
    encoder,                    \* main's local `encoder`
    optimizer,                  \* main's local `optimizer`
    iteration,                  \* main's local `iteration`
    batch_index,                \* main's local `batch_index`
    current_training_step,      \* main's local `current_training_step`
    x,                          \* main's local `x`
    factorized_z,               \* main's local `factorized_z`
    logdet,                     \* main's local `logdet`
    negative_log_likelihood,    \* main's local `negative_log_likelihood`
    loss,                       \* main's local `loss`
    calls,                      \* history: what each process has called
    z                           \* merge_factorized_z's local `z`

vars == <<size, args, files, snapshot, comm, pc, image, dataset, iterator,
          hyperparams, encoder, optimizer, iteration, batch_index,
          current_training_step, x, factorized_z, logdet,
          negative_log_likelihood, loss, calls, z>>

Ranks == 0 .. (MaxSize - 1)

\* the ranks of the communicator
Live == 0 .. (size - 1)


(***************************************************************************)
(* Values                                                                  *)
(***************************************************************************)
RECURSIVE Pow2(_)
\* 2**k (lines 67, 76)
Pow2(k) == IF k = 0 THEN 1 ELSE 2 * Pow2(k - 1)

\* math.log(n) in units of log 2, for n a power of two (line 140)
Log2(n) == CHOOSE k \in 0 .. DefaultBits : Pow2(k) = n

\* provenance of parameter values: no value, read from the snapshot, or
\* initialised by the process of rank r >= 0
Unset == -2

FromSnapshot == -1

NoParams == [present |-> FALSE, init |-> Unset, actnorm |-> Unset,
             steps |-> 0, last |-> {}]

NoHyper == [set |-> FALSE, levels |-> 0, image_size |-> <<0, 0>>,
            num_bits_x |-> 0]

NoImage == [defined |-> FALSE, shape |-> <<0, 0, 0>>]

NoDataset == [defined |-> FALSE, b |-> 0, e |-> 0]

NoIterator == [defined |-> FALSE, current_position |-> 0, epoch |-> 0,
               is_new_epoch |-> FALSE, repeat |-> TRUE]

NoEncoder == [built |-> FALSE, need_initialize |-> FALSE, levels |-> 0,
              grad |-> "none", params |-> NoParams]

NoOptimizer == [setup |-> FALSE, target_params |-> FALSE]

NoX == [defined |-> FALSE, shape |-> <<0, 0, 0, 0>>, noise |-> FALSE,
        forwards |-> 0]

NoLoss == [num |-> 0, den |-> 1, finite |-> TRUE]

NoModelFile == [present |-> FALSE, complete |-> TRUE, levels |-> 0,
                need_initialize |-> FALSE, params |-> NoParams]

\* no temporary file at the snapshot path; `writers` are the processes that
\* have it open, `clobbered` that one opened it while another was writing
NoTmp == [file |-> NoModelFile, writers |-> {}, clobbered |-> FALSE]

NoCalls == [need_initialize_at_start |-> FALSE,
            initialize_actnorm_weights |-> 0, initialized_late |-> FALSE,
            encoder_logdet |-> 0, reverse |-> 0, serialize_end |-> 0,
            wrote |-> "no", stepped_local |-> FALSE,
            nonfinite_loss |-> FALSE, mkdir |-> "none", ops |-> <<>>]

NoZ == [set |-> FALSE, shape |-> <<0, 0, 0, 0>>, ok |-> TRUE, i |-> 0,
        returned |-> FALSE, input |-> <<0, 0, 0, 0>>]

NoComm == [scattered |-> FALSE, bcast |-> NoParams, contributed |-> {},
           collected |-> {}]

\* the (H, W) of the png files the model draws from
ImageSizes == {<<s, s>> : s \in {t \in 2 .. MaxSide : t % 2 = 0}}

\* --num-bits-x values the model draws from
BitsChoices == {1, DefaultBits}

\* what a forward pass may return: the log-determinant, and the NLL of the
\* latent of the first level (the latent of level i has  nll + i - 1);
\* `finite` is false when the floating point values are NaN or Inf, and the
\* numbers then stand for nothing
EncoderSamples == {[logdet |-> -1, nll |-> 2, finite |-> TRUE],
                   [logdet |-> 2, nll |-> 1, finite |-> TRUE],
                   [logdet |-> 0, nll |-> 0, finite |-> FALSE]}

Divides(a, b) == b % a = 0

(***************************************************************************)
(* Shapes: squeeze, split, unsqueeze, concatenate                          *)
(***************************************************************************)
\* space-to-depth: halves H and W, quadruples the channels
Squeeze(s) == <<s[1], s[2] * 4, s[3] \div 2, s[4] \div 2>>

\* the half of the channels a level emits (and the half it carries on)
SplitHalf(s) == <<s[1], s[2] \div 2, s[3], s[4]>>

RECURSIVE FactorizedShapes(_, _)
\* the shapes of the factorized latents of an input of shape s over L levels:
\* every level squeezes; all but the last emit one half and carry the other
FactorizedShapes(s, L) ==
    IF L = 1 THEN <<Squeeze(s)>>
    ELSE <<SplitHalf(Squeeze(s))>> \o FactorizedShapes(SplitHalf(Squeeze(s)), L - 1)

\* glow.nn.chainer.functions.unsqueeze: depth-to-space by `factor`
UnsqueezeOk(s, factor) == Divides(factor * factor, s[2])

Unsqueeze(s, factor) ==
    <<s[1], s[2] \div (factor * factor), s[3] * factor, s[4] * factor>>

\* xp.concatenate((a, b), axis=1) is defined when all other axes agree
ConcatOk(a, b) == a[1] = b[1] /\ a[3] = b[3] /\ a[4] = b[4]

Concat(a, b) == <<a[1], a[2] + b[2], a[3], a[4]>>

NumElements(s) == s[1] * s[2] * s[3] * s[4]


(***************************************************************************)
(* The state after the launcher has started `size` processes               *)
(***************************************************************************)
\* chainermn.scatter_dataset: every rank gets ceil(n / size) examples,
\* rank i the ones from n * i // size on
SubLen(n, sz) == (n + sz - 1) \div sz

Shard(n, sz, i) == [defined |-> TRUE, b |-> (n * i) \div sz,
                    e |-> ((n * i) \div sz) + SubLen(n, sz)]

DatasetLen(d) == d.e - d.b

\* a snapshot an earlier run left behind
PriorHyper(hw) ==
    {[set |-> TRUE, levels |-> l, image_size |-> hw,
      num_bits_x |-> DefaultBits] :
        l \in {k \in 1 .. MaxLevels : /\ Divides(Pow2(k), hw[1])
                                      /\ Divides(Pow2(k), hw[2])}}

\* the checkpoint of the model that an earlier run built from h
PriorModel(h) ==
    [present |-> TRUE, complete |-> TRUE, levels |-> h.levels,
     need_initialize |-> FALSE,
     params |-> [present |-> TRUE, init |-> FromSnapshot,
                 actnorm |-> FromSnapshot, steps |-> 0, last |-> {}]]

Snapshots(hw) ==
    {[dir |-> FALSE, hyper |-> NoHyper, model |-> NoModelFile, tmp |-> NoTmp],
     [dir |-> TRUE, hyper |-> NoHyper, model |-> NoModelFile, tmp |-> NoTmp]}
    \cup {[dir |-> TRUE, hyper |-> h, model |-> NoModelFile, tmp |-> NoTmp] :
             h \in PriorHyper(hw)}
    \cup {[dir |-> TRUE, hyper |-> h, model |-> PriorModel(h), tmp |-> NoTmp] :
             h \in PriorHyper(hw)}

Args(n, hw, sz) ==
    {a \in [training_steps : 0 .. MaxTrainingSteps,
            batch_size : 1 .. MaxBatchSize,
            num_bits_x : BitsChoices,
            levels : 1 .. MaxLevels] :
        /\ a.batch_size <= SubLen(n, sz)
        /\ Divides(Pow2(a.levels), hw[1])
        /\ Divides(Pow2(a.levels), hw[2])}

Locals(pc0) ==
    /\ comm = NoComm
    /\ pc = pc0
    /\ image = [w \in Ranks |-> NoImage]
    /\ dataset = [w \in Ranks |-> NoDataset]
    /\ iterator = [w \in Ranks |-> NoIterator]
    /\ hyperparams = [w \in Ranks |-> NoHyper]
    /\ encoder = [w \in Ranks |-> NoEncoder]
    /\ optimizer = [w \in Ranks |-> NoOptimizer]
    /\ iteration = [w \in Ranks |-> -1]
    /\ batch_index = [w \in Ranks |-> -1]
    /\ current_training_step = [w \in Ranks |-> 0]
    /\ x = [w \in Ranks |-> NoX]
    /\ logdet = [w \in Ranks |-> 0]
    /\ negative_log_likelihood = [w \in Ranks |-> 0]
    /\ loss = [w \in Ranks |-> NoLoss]
    /\ calls = [w \in Ranks |-> NoCalls]

Init ==
    /\ size \in 1 .. MaxSize
    /\ \E n \in 1 .. MaxImages, hw \in ImageSizes :
          /\ files = [n |-> n, shape |-> <<hw[1], hw[2], Channels>>]
          /\ args \in Args(n, hw, size)
          /\ snapshot \in Snapshots(hw)
    /\ Locals([w \in Ranks |-> IF w < size THEN "start" ELSE "off"])
    /\ factorized_z = [w \in Ranks |-> <<>>]
    /\ z = NoZ

(***************************************************************************)
(* main(), lines 55-128: set-up                                            *)
(***************************************************************************)
\* line 57, os.mkdir(path): creates the directory, raises when it exists
Mkdir(snap) ==
    IF snap.dir
    THEN [snap |-> snap, raised |-> TRUE, did |-> "existed"]
    ELSE [snap |-> [snap EXCEPT !.dir = TRUE], raised |-> FALSE,
          did |-> "created"]

TryMkdirUncaught(snap) == Mkdir(snap)

\* lines 56-59: try: os.mkdir(...) except: pass
TryMkdir(snap) == [Mkdir(snap) EXCEPT !.raised = FALSE]

\* lines 56-67: os.mkdir in try/except, the communicator, the device
Start(w) ==
    /\ pc[w] = "start"
    /\ snapshot' = TryMkdir(snapshot).snap
    /\ calls' = [calls EXCEPT ![w].mkdir = TryMkdir(snapshot).did]
    /\ pc' = [pc EXCEPT ![w] = IF TryMkdir(snapshot).raised THEN "failed"
                                                            ELSE "load"]
    /\ UNCHANGED <<size, args, files, comm, image, dataset, iterator,
                   hyperparams, encoder, optimizer, iteration, batch_index,
                   current_training_step, x, factorized_z, logdet,
                   negative_log_likelihood, loss, z>>

\* image.transpose((2, 0, 1)) of an array of shape (H, W, C)
Transpose201(s) == <<s[3], s[1], s[2]>>

\* image.shape[1:]
ShapeTail(s) == <<s[2], s[3]>>

\* lines 69-90: only rank 0 reads the files, which binds `image`
LoadImages(w) ==
    /\ pc[w] = "load"
    /\ image' = IF w = 0 /\ files.n > 0
                THEN [image EXCEPT ![w] = [defined |-> TRUE,
                                           shape |-> Transpose201(files.shape)]]
                ELSE image
    /\ pc' = [pc EXCEPT ![w] = "scatter"]
    /\ UNCHANGED <<size, args, files, snapshot, comm, dataset, iterator,
                   hyperparams, encoder, optimizer, iteration, batch_index,
                   current_training_step, x, factorized_z, logdet,
                   negative_log_likelihood, loss, calls, z>>

\* chainer.iterators.SerialIterator(dataset, batch_size): repeat=True
SerialIterator == [defined |-> TRUE, current_position |-> 0, epoch |-> 0,
                   is_new_epoch |-> FALSE, repeat |-> TRUE]

\* lines 92-93: the root sends every rank its shard, the others receive it
ScatterDataset(w) ==
    /\ pc[w] = "scatter"
    /\ w # 0 => comm.scattered
    /\ comm' = IF w = 0 THEN [comm EXCEPT !.scattered = TRUE] ELSE comm
    /\ dataset' = [dataset EXCEPT ![w] = Shard(files.n, size, w)]
    /\ iterator' = [iterator EXCEPT ![w] = SerialIterator]
    /\ pc' = [pc EXCEPT ![w] = "hyper"]
    /\ UNCHANGED <<size, args, files, snapshot, image, hyperparams, encoder,
                   optimizer, iteration, batch_index, current_training_step,
                   x, factorized_z, logdet, negative_log_likelihood, loss,
                   calls, z>>

\* lines 96-101: the values main assigns to the hyperparameters
HyperFromArgs(w) == [set |-> TRUE, levels |-> args.levels,
                     image_size |-> ShapeTail(image[w].shape),
                     num_bits_x |-> args.num_bits_x]

\* line 99 reads the local `image`, bound only where the file loop ran
ImageBound(w) == image[w].defined

\* lines 95-102: Hyperparameters(path), the assignments, serialize(path);
\* an unbound `image` raises at line 99 and ends the process
SetupHyperparams(w) ==
    /\ pc[w] = "hyper"
    /\ IF ImageBound(w)
       THEN /\ hyperparams' = [hyperparams EXCEPT ![w] = HyperFromArgs(w)]
            /\ snapshot' = [snapshot EXCEPT !.hyper = HyperFromArgs(w)]
            /\ pc' = [pc EXCEPT ![w] = "model"]
       ELSE /\ pc' = [pc EXCEPT ![w] = "failed"]
            /\ UNCHANGED <<hyperparams, snapshot>>
    /\ UNCHANGED <<size, args, files, comm, image, dataset, iterator, encoder,
                   optimizer, iteration, batch_index, current_training_step,
                   x, factorized_z, logdet, negative_log_likelihood, loss,
                   calls, z>>

\* InferenceModel(hyperparams, hdf5_path): the parameters of the snapshot
\* when it holds a model, freshly initialised ones otherwise
InferenceModel(w) ==
    IF snapshot.model.present
    THEN [built |-> TRUE, need_initialize |-> snapshot.model.need_initialize,
          levels |-> hyperparams[w].levels, grad |-> "none",
          params |-> snapshot.model.params]
    ELSE [built |-> TRUE, need_initialize |-> TRUE,
          levels |-> hyperparams[w].levels, grad |-> "none",
          params |-> [present |-> TRUE, init |-> w, actnorm |-> Unset,
                      steps |-> 0, last |-> {}]]

\* lines 114-119: the encoder and the multi-node optimizer
BuildModel(w) ==
    /\ pc[w] = "model"
    /\ encoder' = [encoder EXCEPT ![w] = InferenceModel(w)]
    /\ optimizer' = [optimizer EXCEPT ![w] = [setup |-> TRUE,
                                              target_params |-> FALSE]]
    /\ calls' = [calls EXCEPT ![w].need_initialize_at_start =
                                  InferenceModel(w).need_initialize]
    /\ pc' = [pc EXCEPT ![w] = "init"]
    /\ UNCHANGED <<size, args, files, snapshot, comm, image, dataset,
                   iterator, hyperparams, iteration, batch_index,
                   current_training_step, x, factorized_z, logdet,
                   negative_log_likelihood, loss, z>>

(***************************************************************************)
(* SerialIterator.__next__                                                 *)
(***************************************************************************)
\* raise StopIteration: only a non-repeating iterator past its first epoch
StopIteration(it) == ~it.repeat /\ it.epoch > 0

\* the iterator after handing out one batch of a dataset of N examples
Advance(it, N, bs) ==
    IF it.current_position + bs >= N
    THEN [it EXCEPT !.current_position =
                        IF it.repeat THEN it.current_position + bs - N ELSE 0,
                    !.epoch = it.epoch + 1,
                    !.is_new_epoch = TRUE]
    ELSE [it EXCEPT !.current_position = it.current_position + bs,
                    !.is_new_epoch = FALSE]

\* np.asanyarray(data): a new array of the batch, [N, C, H, W], no noise yet
Batch(w) == [defined |-> TRUE,
             shape |-> <<args.batch_size>> \o Transpose201(files.shape),
             noise |-> FALSE, forwards |-> 0]


(***************************************************************************)
(* merge_factorized_z, lines 46-52                                         *)
(***************************************************************************)
RECURSIVE Reverse(_)
Reverse(q) == IF q = <<>> THEN <<>> ELSE Reverse(Tail(q)) \o <<Head(q)>>

MergeOrderForward(fz) == fz

\* line 48: the latents are taken last level first
MergeOrder(fz) == Reverse(fz)

\* lines 50-51: one turn of the loop on the running z and the latent zi
MergeStep(zs, zi, factor) ==
    LET okcat == ~zs.set \/ ConcatOk(zi.shape, zs.shape)
        cat == IF ~zs.set THEN zi.shape ELSE Concat(zi.shape, zs.shape)
    IN  [zs EXCEPT !.set = TRUE,
                   !.ok = zs.ok /\ okcat /\ UnsqueezeOk(cat, factor),
                   !.shape = Unsqueeze(cat, factor),
                   !.i = zs.i + 1]

RECURSIVE MergeFrom(_, _, _)
MergeFrom(zs, q, factor) ==
    IF q = <<>> THEN zs
    ELSE MergeFrom(MergeStep(zs, Head(q), factor), Tail(q), factor)

\* the whole call
merge_factorized_z(fz, factor) == MergeFrom(NoZ, MergeOrder(fz), factor)

(***************************************************************************)
(* main(), lines 121-187: initialisation and the training loop             *)
(***************************************************************************)
NeedsInitAlways(w) == TRUE

\* line 122
NeedsInit(w) == encoder[w].need_initialize

\* lines 121-128: one batch for the data dependent initialisation, if needed
DataDependentInit(w) ==
    /\ pc[w] = "init"
    /\ IF NeedsInit(w) /\ ~StopIteration(iterator[w])
       THEN /\ iterator' = [iterator EXCEPT ![w] =
                    Advance(@, DatasetLen(dataset[w]), args.batch_size)]
            /\ x' = [x EXCEPT ![w] = Batch(w)]
            /\ encoder' = [encoder EXCEPT ![w].need_initialize = FALSE,
                                          ![w].params.actnorm = w]
            /\ calls' = [calls EXCEPT
                    ![w].initialize_actnorm_weights = @ + 1,
                    ![w].initialized_late = optimizer[w].target_params]
       ELSE UNCHANGED <<iterator, x, encoder, calls>>
    /\ current_training_step' = [current_training_step EXCEPT ![w] = 0]
    /\ pc' = [pc EXCEPT ![w] = "outer"]
    /\ UNCHANGED <<size, args, files, snapshot, comm, image, dataset,
                   hyperparams, optimizer, iteration, batch_index,
                   factorized_z, logdet, negative_log_likelihood, loss, z>>

\* lines 132-134: for iteration in range(args.training_steps)
OuterLoop(w) ==
    /\ pc[w] = "outer"
    /\ IF iteration[w] + 1 < args.training_steps
       THEN /\ iteration' = [iteration EXCEPT ![w] = @ + 1]
            /\ batch_index' = [batch_index EXCEPT ![w] = -1]
            /\ pc' = [pc EXCEPT ![w] = "batch"]
       ELSE /\ pc' = [pc EXCEPT ![w] = "done"]
            /\ UNCHANGED <<iteration, batch_index>>
    /\ UNCHANGED <<size, args, files, snapshot, comm, image, dataset,
                   iterator, hyperparams, encoder, optimizer,
                   current_training_step, x, factorized_z, logdet,
                   negative_log_likelihood, loss, calls, z>>

\* line 67
NumBinsX == Pow2(args.num_bits_x)

\* line 129
NumPixels(w) == hyperparams[w].image_size[1] * hyperparams[w].image_size[2]

AddNoiseSkipped(xb) == xb

\* line 138: x += xp.random.uniform(0, 1.0 / num_bins_x, size=x.shape)
AddNoise(xb) == [xb EXCEPT !.noise = TRUE]

\* encoder(x): the latents of the levels and the log-determinant
EncoderOutputs(w) ==
    {[fz |-> [i \in 1 .. encoder[w].levels |->
                  [shape |-> FactorizedShapes(x[w].shape, encoder[w].levels)[i],
                   nll |-> out.nll + i - 1, finite |-> out.finite]],
      logdet |-> out.logdet] : out \in EncoderSamples}

\* encoder.serialize(path): the contents of the file it writes
Serialized(w) == [present |-> TRUE, complete |-> TRUE,
                  levels |-> encoder[w].levels,
                  need_initialize |-> encoder[w].need_initialize,
                  params |-> encoder[w].params]

\* encoder.serialize(path) starts: the dump goes to the temporary file in
\* the snapshot directory, the checkpoint file is not touched.  No name of
\* its own is given to a writer: a process that opens the file while
\* another is writing it truncates that one's dump
SerializeOpen(snap, w) ==
    [snap EXCEPT !.tmp = [file |-> [Serialized(w) EXCEPT !.complete = FALSE],
                          writers |-> snap.tmp.writers \cup {w},
                          clobbered |-> snap.tmp.writers # {}]]

\* the process has written out its dump: the file is whole unless another
\* process wrote into it
SerializeWritten(snap, w) ==
    [snap EXCEPT !.tmp.writers = @ \ {w},
                 !.tmp.file.complete = snap.tmp.file.present
                                          /\ ~snap.tmp.clobbered]

\* the temporary file is renamed onto the checkpoint file, in one step
SerializeRenamed(snap, w) ==
    IF snap.tmp.file.present
    THEN [snap EXCEPT !.model = snap.tmp.file, !.tmp = NoTmp]
    ELSE snap

\* lines 164-185: the reversibility check after a pass, and the report of
\* line 185, where len(iterator) raises TypeError (a SerialIterator has no
\* __len__) and ends the process: encoder.serialize of line 187 is not called
AfterPass(w) ==
    /\ \E out \in EncoderOutputs(w) :
          /\ factorized_z' = [factorized_z EXCEPT ![w] = out.fz]
          /\ logdet' = [logdet EXCEPT ![w] = out.logdet]
          /\ z' = merge_factorized_z(out.fz, Factor)
    /\ x' = [x EXCEPT ![w].forwards = @ + 1]
    /\ calls' = [calls EXCEPT ![w].encoder_logdet = logdet'[w],
                              ![w].reverse = @ + 1]
    /\ pc' = [pc EXCEPT ![w] = "failed"]
    /\ UNCHANGED <<snapshot, iterator, batch_index, current_training_step,
                   encoder>>

\* the counters of a process taken back by `fold` batches
FoldEpoch(e, fold) == IF fold > 0 /\ e > 0 THEN 1 ELSE e

\* lines 136-138: enumerate(iterator) hands out the next batch, or ends
InnerLoopHead(w, fold) ==
    /\ IF StopIteration(iterator[w])
       THEN AfterPass(w)
       ELSE /\ iterator' = [iterator EXCEPT ![w] =
                    [Advance(@, DatasetLen(dataset[w]), args.batch_size)
                        EXCEPT !.epoch = FoldEpoch(@, fold)]]
            /\ batch_index' = [batch_index EXCEPT ![w] = @ + 1 - fold]
            /\ current_training_step' =
                   [current_training_step EXCEPT ![w] = @ - fold]
            /\ encoder' = [encoder EXCEPT ![w].params.steps = @ - fold]
            /\ x' = [x EXCEPT ![w] = AddNoise(Batch(w))]
            /\ calls' = [calls EXCEPT ![w].wrote = "no", ![w].ops = <<>>]
            /\ pc' = [pc EXCEPT ![w] = "forward"]
            /\ UNCHANGED <<snapshot, factorized_z, logdet, z>>
    /\ UNCHANGED <<size, args, files, comm, image, dataset, hyperparams,
                   optimizer, iteration, negative_log_likelihood, loss>>

NextBatch(w) ==
    /\ pc[w] = "batch"
    /\ batch_index[w] < MaxBatchIndex
    /\ InnerLoopHead(w, 0)

\* line 139
Forward(w) ==
    /\ pc[w] = "forward"
    /\ \E out \in EncoderOutputs(w) :
          /\ factorized_z' = [factorized_z EXCEPT ![w] = out.fz]
          /\ logdet' = [logdet EXCEPT ![w] = out.logdet]
    /\ calls' = [calls EXCEPT ![w].encoder_logdet = logdet'[w],
                              ![w].ops = Append(@, "forward")]
    /\ x' = [x EXCEPT ![w].forwards = @ + 1]
    /\ pc' = [pc EXCEPT ![w] = "loss"]
    /\ UNCHANGED <<size, args, files, snapshot, comm, image, dataset,
                   iterator, hyperparams, encoder, optimizer, iteration,
                   batch_index, current_training_step,
                   negative_log_likelihood, loss, z>>

DequantizedLogdetAdded(ld, w) == ld + Log2(NumBinsX) * NumPixels(w)

\* line 140: logdet -= math.log(num_bins_x) * num_pixels
DequantizedLogdet(ld, w) == ld - Log2(NumBinsX) * NumPixels(w)

RECURSIVE SumNll(_)
\* lines 141-144
SumNll(fz) == IF fz = <<>> THEN 0 ELSE Head(fz).nll + SumNll(Tail(fz))

\* line 145: math.log(2.0) * args.batch_size * num_pixels
Denom(w) == 1 * args.batch_size * NumPixels(w)

\* lines 141-146: float arithmetic hands NaN and Inf on to its result
IsFinite(fz) == \A i \in 1 .. Len(fz) : fz[i].finite

\* lines 140-146: nothing looks at the value of the loss
Loss(w) ==
    /\ pc[w] = "loss"
    /\ logdet' = [logdet EXCEPT ![w] = DequantizedLogdet(@, w)]
    /\ negative_log_likelihood' =
           [negative_log_likelihood EXCEPT ![w] = SumNll(factorized_z[w])]
    /\ loss' = [loss EXCEPT ![w] =
                   [num |-> negative_log_likelihood'[w] - logdet'[w],
                    den |-> Denom(w),
                    finite |-> IsFinite(factorized_z[w])]]
    /\ calls' = [calls EXCEPT ![w].nonfinite_loss =
                                  @ \/ ~IsFinite(factorized_z[w]),
                              ![w].ops = Append(@, "loss")]
    /\ pc' = [pc EXCEPT ![w] = "cleargrads"]
    /\ UNCHANGED <<size, args, files, snapshot, comm, image, dataset,
                   iterator, hyperparams, encoder, optimizer, iteration,
                   batch_index, current_training_step, x, factorized_z, z>>

\* line 147
Cleargrads(w) ==
    /\ pc[w] = "cleargrads"
    /\ encoder' = [encoder EXCEPT ![w].grad = "none"]
    /\ calls' = [calls EXCEPT ![w].ops = Append(@, "cleargrads")]
    /\ pc' = [pc EXCEPT ![w] = "backward"]
    /\ UNCHANGED <<size, args, files, snapshot, comm, image, dataset,
                   iterator, hyperparams, optimizer, iteration, batch_index,
                   current_training_step, x, factorized_z, logdet,
                   negative_log_likelihood, loss, z>>

\* line 148
Backward(w) ==
    /\ pc[w] = "backward"
    /\ encoder' = [encoder EXCEPT ![w].grad = "local"]
    /\ calls' = [calls EXCEPT ![w].ops = Append(@, "backward")]
    /\ pc' = [pc EXCEPT ![w] = "update"]
    /\ UNCHANGED <<size, args, files, snapshot, comm, image, dataset,
                   iterator, hyperparams, optimizer, iteration, batch_index,
                   current_training_step, x, factorized_z, logdet,
                   negative_log_likelihood, loss, z>>

\* line 149, optimizer.update() of the multi-node optimizer: its first call
\* broadcasts the parameters of rank 0 and applies nothing; every later call
\* hands the local gradient to the all-reduce
Update(w) ==
    /\ pc[w] = "update"
    /\ IF ~optimizer[w].target_params
       THEN /\ w # 0 => comm.bcast.present
            /\ comm' = IF w = 0
                       THEN [comm EXCEPT !.bcast = encoder[w].params]
                       ELSE comm
            /\ encoder' = IF w = 0 THEN encoder
                          ELSE [encoder EXCEPT ![w].params = comm.bcast]
            /\ optimizer' = [optimizer EXCEPT ![w].target_params = TRUE]
            /\ pc' = [pc EXCEPT ![w] = "after"]
       ELSE /\ w \notin comm.contributed
            /\ comm' = [comm EXCEPT !.contributed = @ \cup {w}]
            /\ pc' = [pc EXCEPT ![w] = "allreduce"]
            /\ UNCHANGED <<encoder, optimizer>>
    /\ calls' = [calls EXCEPT ![w].ops = Append(@, "update")]
    /\ UNCHANGED <<size, args, files, snapshot, image, dataset, iterator,
                   hyperparams, iteration, batch_index,
                   current_training_step, x, factorized_z, logdet,
                   negative_log_likelihood, loss, z>>

\* the all-reduce returns once every rank has handed in its gradient
AllreduceReady(w) == comm.contributed = Live

\* line 149, continued: the mean gradient arrives and Adam applies it
AllreduceUpdate(w) ==
    /\ pc[w] = "allreduce"
    /\ AllreduceReady(w)
    /\ encoder' = [encoder EXCEPT ![w].grad = "mean",
                                  ![w].params.steps = @ + 1,
                                  ![w].params.last = comm.contributed]
    /\ calls' = [calls EXCEPT ![w].stepped_local =
                                  @ \/ comm.contributed # Live]
    /\ comm' = IF comm.collected \cup {w} = Live
               THEN [comm EXCEPT !.contributed = {}, !.collected = {}]
               ELSE [comm EXCEPT !.collected = @ \cup {w}]
    /\ pc' = [pc EXCEPT ![w] = "after"]
    /\ UNCHANGED <<size, args, files, snapshot, image, dataset, iterator,
                   hyperparams, optimizer, iteration, batch_index,
                   current_training_step, x, factorized_z, logdet,
                   negative_log_likelihood, loss, z>>

\* line 161
CheckpointDue(bi) == bi % CheckpointEvery = 0

StepNotCounted(step) == step

\* line 151: current_training_step += 1
StepCounted(step) == step + 1

\* lines 151-162: count the step, start the checkpoint when it is due
AfterUpdate(w) ==
    /\ pc[w] = "after"
    /\ current_training_step' =
           [current_training_step EXCEPT ![w] = StepCounted(@)]
    /\ IF CheckpointDue(batch_index[w])
       THEN /\ snapshot' = SerializeOpen(snapshot, w)
            /\ calls' = [calls EXCEPT ![w].wrote = "batch",
                                      ![w].ops = Append(@, "count")]
            /\ pc' = [pc EXCEPT ![w] = "write"]
       ELSE /\ pc' = [pc EXCEPT ![w] = "batch"]
            /\ calls' = [calls EXCEPT ![w].ops = Append(@, "count")]
            /\ UNCHANGED snapshot
    /\ UNCHANGED <<size, args, files, comm, image, dataset, iterator,
                   hyperparams, encoder, optimizer, iteration, batch_index,
                   x, factorized_z, logdet, negative_log_likelihood, loss, z>>

\* line 162, encoder.serialize continued: the dump is written out
SerializeWrite(w) ==
    /\ pc[w] = "write"
    /\ snapshot' = SerializeWritten(snapshot, w)
    /\ pc' = [pc EXCEPT ![w] = "rename"]
    /\ UNCHANGED <<size, args, files, comm, image, dataset, iterator,
                   hyperparams, encoder, optimizer, iteration, batch_index,
                   current_training_step, x, factorized_z, logdet,
                   negative_log_likelihood, loss, calls, z>>

\* line 162, encoder.serialize returns: on to the next batch
SerializeRename(w) ==
    /\ pc[w] = "rename"
    /\ snapshot' = SerializeRenamed(snapshot, w)
    /\ pc' = [pc EXCEPT ![w] = "batch"]
    /\ UNCHANGED <<size, args, files, comm, image, dataset, iterator,
                   hyperparams, encoder, optimizer, iteration, batch_index,
                   current_training_step, x, factorized_z, logdet,
                   negative_log_likelihood, loss, calls, z>>

\* the process is killed while encoder.serialize is at work
Crash(w) ==
    /\ pc[w] \in {"write", "rename"}
    /\ pc' = [pc EXCEPT ![w] = "crashed"]
    /\ UNCHANGED <<size, args, files, snapshot, comm, image, dataset,
                   iterator, hyperparams, encoder, optimizer, iteration,
                   batch_index, current_training_step, x, factorized_z,
                   logdet, negative_log_likelihood, loss, calls, z>>

Next ==
    \E w \in Ranks :
        \/ Start(w)
        \/ LoadImages(w)
        \/ ScatterDataset(w)
        \/ SetupHyperparams(w)
        \/ BuildModel(w)
        \/ DataDependentInit(w)
        \/ OuterLoop(w)
        \/ NextBatch(w)
        \/ Forward(w)
        \/ Loss(w)
        \/ Cleargrads(w)
        \/ Backward(w)
        \/ Update(w)
        \/ AllreduceUpdate(w)
        \/ AfterUpdate(w)
        \/ SerializeWrite(w)
        \/ SerializeRename(w)
        \/ Crash(w)

Spec == Init /\ [][Next]_vars


(***************************************************************************)
(* The same program with the fairness of its scheduling: every process     *)
(* that can take a step eventually takes one.  The counters that only grow *)
(* (batch_index, current_training_step, the number of applied steps, the   *)
(* iterator's epoch) are taken back by CheckpointEvery batches when        *)
(* batch_index reaches MaxBatchIndex, which keeps every value the program  *)
(* reads from them: batch_index % 100 and epoch > 0.                       *)
(***************************************************************************)
NextBatchFolded(w) ==
    /\ pc[w] = "batch"
    /\ batch_index[w] = MaxBatchIndex
    /\ InnerLoopHead(w, CheckpointEvery)

Proc(w) ==
    \/ Start(w)
    \/ LoadImages(w)
    \/ ScatterDataset(w)
    \/ SetupHyperparams(w)
    \/ BuildModel(w)
    \/ DataDependentInit(w)
    \/ OuterLoop(w)
    \/ NextBatch(w)
    \/ NextBatchFolded(w)
    \/ Forward(w)
    \/ Loss(w)
    \/ Cleargrads(w)
    \/ Backward(w)
    \/ Update(w)
    \/ AllreduceUpdate(w)
    \/ AfterUpdate(w)
    \/ SerializeWrite(w)
    \/ SerializeRename(w)

FairNext == \E w \in Ranks : Proc(w)

FairSpec == Init /\ [][FairNext]_vars /\ \A w \in Ranks : WF_vars(Proc(w))

(***************************************************************************)
(* merge_factorized_z on the latents of an input of any shape              *)
(***************************************************************************)
MergeInputs ==
    {in \in [shape : (1 .. MaxBatchSize) \X (1 .. MaxChannels)
                        \X (1 .. MaxMergeSide) \X (1 .. MaxMergeSide),
             levels : 1 .. MaxMergeLevels] :
        /\ Divides(Pow2(in.levels), in.shape[3])
        /\ Divides(Pow2(in.levels), in.shape[4])}

MergeInit ==
    /\ size = 1
    /\ args = [training_steps |-> 0, batch_size |-> 1,
               num_bits_x |-> DefaultBits, levels |-> 1]
    /\ files = [n |-> 0, shape |-> <<0, 0, Channels>>]
    /\ snapshot = [dir |-> FALSE, hyper |-> NoHyper, model |-> NoModelFile,
                   tmp |-> NoTmp]
    /\ Locals([w \in Ranks |-> "off"])
    /\ \E in \in MergeInputs :
          /\ factorized_z = [w \in Ranks |->
                IF w = 0
                THEN [i \in 1 .. in.levels |->
                         [shape |-> FactorizedShapes(in.shape, in.levels)[i],
                          nll |-> 0, finite |-> TRUE]]
                ELSE <<>>]
          /\ z = [NoZ EXCEPT !.input = in.shape]

\* lines 48-51: one turn of the loop
MergeLoop ==
    /\ ~z.returned
    /\ z.i < Len(factorized_z[0])
    /\ z' = MergeStep(z, MergeOrder(factorized_z[0])[z.i + 1], Factor)
    /\ UNCHANGED <<size, args, files, snapshot, comm, pc, image, dataset,
                   iterator, hyperparams, encoder, optimizer, iteration,
                   batch_index, current_training_step, x, factorized_z,
                   logdet, negative_log_likelihood, loss, calls>>

\* line 52
MergeReturn ==
    /\ ~z.returned
    /\ z.i = Len(factorized_z[0])
    /\ z' = [z EXCEPT !.returned = TRUE]
    /\ UNCHANGED <<size, args, files, snapshot, comm, pc, image, dataset,
                   iterator, hyperparams, encoder, optimizer, iteration,
                   batch_index, current_training_step, x, factorized_z,
                   logdet, negative_log_likelihood, loss, calls>>

MergeNext == MergeLoop \/ MergeReturn

SpecMerge == MergeInit /\ [][MergeNext]_vars


(***************************************************************************)
(* C1  Every process that enters the training loop leaves it: each pass    *)
(* over the batch iterator ends and main returns after training_steps      *)
(* passes (unless a process of the run has failed).                        *)
(***************************************************************************)
C1_LoopTerminates ==
    \A w \in Ranks :
        (pc[w] = "outer") ~> (pc[w] = "done" \/ \E v \in Ranks : pc[v] = "failed")


(***************************************************************************)
(* Where a process is                                                      *)
(***************************************************************************)
LoopPcs == {"outer", "batch", "forward", "loss", "cleargrads", "backward",
            "update", "allreduce", "after", "write", "rename", "done"}

\* the batches of one full pass over the shard of w
BatchesPerPass(w) ==
    (DatasetLen(dataset[w]) + args.batch_size - 1) \div args.batch_size

\* the full passes over its shard that w has trained
PassesTrained(w) == current_training_step[w] \div BatchesPerPass(w)

(***************************************************************************)
(* C2  initialize_actnorm_weights is called once when need_initialize is   *)
(* true at the start and never when it is false; the call precedes the     *)
(* first optimizer.update and none follows an update.                      *)
(***************************************************************************)
C2_ActnormInitOnce ==
    \A w \in Ranks :
        LET n == calls[w].initialize_actnorm_weights
            want == IF calls[w].need_initialize_at_start THEN 1 ELSE 0
        IN  /\ n <= want
            /\ ~calls[w].initialized_late
            /\ pc[w] \in LoopPcs => n = want
            /\ optimizer[w].target_params => n = want

C2_Witness ==
    \E w \in Ranks :
        /\ calls[w].need_initialize_at_start
        /\ calls[w].initialize_actnorm_weights = 1
        /\ optimizer[w].target_params
        /\ ~encoder[w].need_initialize

\* w has called optimizer.update for the batch it is at
CalledUpdate(w) == Len(calls[w].ops) >= 5

C4_ReplicasIdentical ==
    \A w \in Ranks : \A v \in Ranks :
        (pc[w] = "batch" /\ pc[v] \in {"batch", "failed"})
        => encoder[v].params = encoder[w].params

(***************************************************************************)
(* C5  Every rank completes the hyperparameter set-up, with image_size the *)
(* (H, W) of the dataset images, and builds its model from the values of   *)
(* rank 0.                                                                 *)
(***************************************************************************)
C5_EveryRankSetsUp ==
    \A w \in Ranks :
        /\ pc[w] # "failed"
        /\ hyperparams[w].set =>
              hyperparams[w].image_size = <<files.shape[1], files.shape[2]>>
        /\ (hyperparams[w].set /\ hyperparams[0].set) =>
              hyperparams[w] = hyperparams[0]
        /\ encoder[w].built => encoder[w].levels = hyperparams[0].levels

(***************************************************************************)
(* C6  The checkpoint is written after the batches the period selects and  *)
(* once at the end of every full pass: when a batch starts, every full     *)
(* pass trained so far has had its end-of-pass checkpoint, exactly one.    *)
(***************************************************************************)
C6_CheckpointCadence ==
    \A w \in Ranks :
        /\ calls[w].wrote = "batch" => CheckpointDue(batch_index[w])
        /\ calls[w].wrote = "end" => pc[w] \in {"outer", "done"}
        /\ pc[w] = "forward" => calls[w].serialize_end = PassesTrained(w)

\* batch_size * num_pixels, the denominator without its factor log 2
ClaimedDenom(w) ==
    args.batch_size * hyperparams[w].image_size[1] * hyperparams[w].image_size[2]

\* the loss of w is (NLL - logdet + const) / (log 2 * batch_size * num_pixels)
LossIs(w, const) ==
    loss[w].num * ClaimedDenom(w) =
        (SumNll(factorized_z[w]) - calls[w].encoder_logdet + const) * loss[w].den

(***************************************************************************)
(* C7  The loss that is backpropagated is                                  *)
(*   (NLL - logdet + const) / (log 2 * batch_size * num_pixels)            *)
(* with const = -log(num_bins) * num_pixels, logdet the encoder's value.   *)
(***************************************************************************)
C7_LossNegativeConst ==
    \A w \in Ranks :
        pc[w] = "update" =>
            LossIs(w, 0 - args.num_bits_x * hyperparams[w].image_size[1]
                                           * hyperparams[w].image_size[2])

(***************************************************************************)
(* C7 (amended)  The same with const = +log(num_bins) * num_pixels: the    *)
(* code takes log(num_bins) * num_pixels off logdet before it takes logdet *)
(* off the NLL.                                                            *)
(***************************************************************************)
C7_LossPositiveConst ==
    \A w \in Ranks :
        pc[w] = "update" =>
            LossIs(w, args.num_bits_x * hyperparams[w].image_size[1]
                                       * hyperparams[w].image_size[2])

C7_Witness ==
    \E w \in Ranks :
        /\ pc[w] = "update"
        /\ encoder[w].grad = "local"
        /\ Len(factorized_z[w]) = 2
        /\ calls[w].encoder_logdet < 0
        /\ args.num_bits_x = DefaultBits
        /\ batch_index[w] > 0

(***************************************************************************)
(* C8  Every forward pass of the encoder gets an input with dequantization *)
(* noise drawn for that pass: no noised input is passed forward twice and  *)
(* none is passed without noise.                                           *)
(***************************************************************************)
C8_FreshNoisePerForward ==
    \A w \in Ranks :
        /\ x[w].forwards <= 1
        /\ x[w].forwards >= 1 => x[w].noise
        /\ pc[w] \in {"loss", "cleargrads", "backward", "update", "allreduce",
                      "after"} => x[w].forwards = 1

C8_Witness ==
    \E w \in Ranks :
        /\ pc[w] = "loss"
        /\ batch_index[w] > 0
        /\ x[w].noise
        /\ x[w].forwards = 1

(***************************************************************************)
(* C9  The reversibility check runs once in every full pass, after its     *)
(* last batch, and is followed by the end-of-pass checkpoint: when a batch *)
(* starts, as many checks have run as full passes were trained.            *)
(***************************************************************************)
C9_ReversibilityCheckPerPass ==
    \A w \in Ranks :
        /\ calls[w].reverse = calls[w].serialize_end
        /\ pc[w] = "forward" => calls[w].reverse = PassesTrained(w)

\* the shape of the latent of level i of L, for an input of shape s
ClaimedLatentShape(s, L, i) ==
    IF i < L
    THEN <<s[1], s[2] * Pow2(i), s[3] \div Pow2(i), s[4] \div Pow2(i)>>
    ELSE <<s[1], s[2] * Pow2(L + 1), s[3] \div Pow2(L), s[4] \div Pow2(L)>>

(***************************************************************************)
(* C10  merge_factorized_z on the latents of an input [N, C, H, W] over L  *)
(* levels (level i < L: [N, C*2^i, H/2^i, W/2^i]; level L:                 *)
(* [N, C*2^(L+1), H/2^L, W/2^L]) concatenates only tensors that agree on   *)
(* the other axes and returns a tensor of shape [N, C, H, W].              *)
(***************************************************************************)
C10_MergeRestoresShape ==
    /\ z.ok
    /\ \A i \in 1 .. Len(factorized_z[0]) :
          factorized_z[0][i].shape =
              ClaimedLatentShape(z.input, Len(factorized_z[0]), i)
    /\ z.returned =>
          /\ z.set
          /\ z.shape = z.input
          /\ NumElements(z.shape) = NumElements(z.input)

C10_Witness ==
    /\ z.returned
    /\ Len(factorized_z[0]) > 2
    /\ z.input[2] = Channels
    /\ z.shape = z.input

(***************************************************************************)
(* C11  Hyperparameters are immutable once serialized: when a process      *)
(* completes its hyperparameter set-up in a run that found hyperparameters *)
(* at the snapshot path, the values it goes on to build its model from and *)
(* the values the snapshot path holds afterwards are the ones that were    *)
(* there before, whatever the command line says.                           *)
(***************************************************************************)
C11_HyperparamsImmutable ==
    [][\A w \in Ranks :
          (pc[w] = "hyper" /\ pc'[w] = "model" /\ snapshot.hyper.set)
          => /\ hyperparams'[w] = snapshot.hyper
             /\ snapshot'.hyper = snapshot.hyper]_vars

(***************************************************************************)
(* C12  A NaN or Inf loss is fatal: once a process has computed a loss     *)
(* that is not finite, it applies no optimizer step and writes no          *)
(* checkpoint any more.                                                    *)
(***************************************************************************)
C12_NonFiniteLossIsFatal ==
    [][\A w \in Ranks :
          calls[w].nonfinite_loss
          => /\ encoder'[w].params.steps <= encoder[w].params.steps
             /\ ~(pc[w] = "update" /\ pc'[w] \in {"after", "allreduce"})
             /\ ~(pc[w] = "after" /\ calls'[w].wrote = "batch")]_vars

\* the snapshot path holds a complete valid checkpoint: a parameter file
\* written out in full, and the hyperparameters of the model it was dumped
\* from, so that the model can be built again from the two
ValidCheckpoint(snap) ==
    /\ snap.model.present
    /\ snap.model.complete
    /\ snap.hyper.set
    /\ snap.hyper.levels = snap.model.levels

C14_ExistingDirectoryIsNoError ==
    [][\A w \in Ranks :
          (pc[w] = "start" /\ pc'[w] # "start" /\ snapshot.dir)
          => /\ pc'[w] = "load"
             /\ snapshot' = snapshot]_vars

C14_Witness ==
    \E w \in Ranks : \E v \in Ranks :
        /\ calls[v].mkdir = "created"
        /\ calls[w].mkdir = "existed"
        /\ pc[w] = "load"
        /\ snapshot.dir

\* what a process does for one batch, lines 139-151
BatchOrder == <<"forward", "loss", "cleargrads", "backward", "update", "count">>

\* q is the beginning of r
IsPrefix(q, r) == Len(q) <= Len(r) /\ q = SubSeq(r, 1, Len(q))

(***************************************************************************)
(* C15  For every batch a process runs, in this order and once each: the   *)
(* forward pass, the loss, encoder.cleargrads, loss.backward and           *)
(* optimizer.update, and then counts the step: what it has done for the    *)
(* batch is at every moment a beginning of that list, the whole list when  *)
(* it turns to the next batch, and current_training_step changes only by   *)
(* one, when the update of the batch is counted.                           *)
(***************************************************************************)
C15_OneUpdatePerBatch ==
    /\ [](\A w \in Ranks :
             /\ IsPrefix(calls[w].ops, BatchOrder)
             /\ (pc[w] = "batch" /\ batch_index[w] >= 0)
                => calls[w].ops = BatchOrder)
    /\ [][\A w \in Ranks :
             /\ current_training_step'[w] # current_training_step[w]
                => /\ current_training_step'[w] = current_training_step[w] + 1
                   /\ calls[w].ops = SubSeq(BatchOrder, 1, 5)
             /\ (calls[w].ops = SubSeq(BatchOrder, 1, 5)
                    /\ calls'[w].ops # calls[w].ops)
                => current_training_step'[w] = current_training_step[w] + 1]_vars

C15_Witness ==
    \E w \in Ranks :
        /\ pc[w] = "batch"
        /\ batch_index[w] = 1
        /\ calls[w].ops = BatchOrder
        /\ current_training_step[w] = 2
        /\ encoder[w].params.steps = 1

=============================================================================
